---- MODULE Spec2Model ----
(***************************************************************************)
(* The Monte Carlo pi demo of src/PythonApplication8.py: one execution of  *)
(* the Streamlit script (slider, run button, Manim scene construction and  *)
(* rendering inside try/except, statistics panel, footer), the estimator   *)
(* block alone on arbitrary sample counts and fixed draws, and the quality *)
(* classifier alone on arbitrary error values.                             *)
(*                                                                         *)
(* Real numbers are exact rationals.  A coordinate of the statistics loop  *)
(* is an integer count of 1/Denom; a coordinate of the scene is an integer *)
(* (the scene's radius is 3).  An estimate or an error is a fraction       *)
(* [num, den] in lowest terms with den > 0; den = 0 means "not computed".  *)
(***************************************************************************)
EXTENDS Integers, Sequences, FiniteSets, Bags, TLC

VARIABLES pc, total_points, run_btn, ui, progress, plays, dot_i, inside_count,
          all_dots, created, faded, caught, trial, sim_inside, my_pi, error,
          exception, est_runs, draws, replay

vars == <<pc, total_points, run_btn, ui, progress, plays, dot_i, inside_count,
          all_dots, created, faded, caught, trial, sim_inside, my_pi, error,
          exception, est_runs, draws, replay>>

sceneVars == <<plays, dot_i, inside_count, all_dots, created, faded>>

statVars == <<trial, sim_inside, my_pi, error, exception, est_runs>>

\* ---------------------------------------------------------------- bounds
\* Slider positions explored: position k is the value min_value + k * step.
MaxSliderPos == 10

\* Largest sample count given to the estimator block alone.
MaxN == 4

\* Error values given to the classifier alone: num / den percent.
MaxErrNum == 24

MaxErrDen == 4

\* ------------------------------------------------------ program constants
min_value == 10

max_value == 2000

step == 10

radius == 3

animation_limit == 100

\* np.pi as a rational (355/113 = 3.14159292...).
PiNum == 355

PiDen == 113

\* A statistics coordinate k stands for the real number k / Denom.
Denom == 2

\* ------------------------------------------------------------ arithmetic
Abs(a) == IF a < 0 THEN -a ELSE a

Min(a, b) == IF a <= b THEN a ELSE b

RECURSIVE GCD(_, _)
GCD(a, b) == IF b = 0 THEN a ELSE GCD(b, a % b)

Undef == [num |-> 0, den |-> 0]

\* a / b for b # 0, in lowest terms with a positive denominator.
Frac(a, b) ==
  LET g == GCD(Abs(a), Abs(b))
      s == IF b < 0 THEN -1 ELSE 1
  IN [num |-> (s * a) \div g, den |-> (s * b) \div g]

\* f < k for a fraction f and an integer k.
Lt(f, k) == f.num < k * f.den

\* ------------------------------------------------------------ the inputs
\* Mutant of SliderValues: a slider whose range starts at 0.
SliderValuesFromZero ==
  {v \in {k * step : k \in 0..MaxSliderPos} : v <= max_value}

\* st.slider(label, 10, 2000, 500, step=10): the values the widget returns.
SliderValues ==
  {v \in {min_value + k * step : k \in 0..MaxSliderPos} : v <= max_value}

\* Draws of np.random.uniform(-1, 1), twice: (0,0) and (1/2,1/2) inside the
\* circle, (-1,0) on it, (-1,-1) outside.
StatPoints ==
  {[x |-> 0, y |-> 0], [x |-> 1, y |-> 1], [x |-> -Denom, y |-> 0],
   [x |-> -Denom, y |-> -Denom]}

\* Draws handed to the estimator block alone: those above and the points
\* (1,1) and (1,0) of the documented scenario.
EstPoints ==
  {[x |-> 0, y |-> 0], [x |-> 1, y |-> 1], [x |-> Denom, y |-> 0],
   [x |-> Denom, y |-> Denom], [x |-> -Denom, y |-> 0]}

\* Draws of random.uniform(-radius, radius), twice: the centre, a point on
\* the circle, a corner of the square.
ScenePoints ==
  {[x |-> 0, y |-> 0], [x |-> -radius, y |-> 0], [x |-> -radius, y |-> -radius]}

\* All sequences of length n over S.
RECURSIVE SeqsOfLen(_, _)
SeqsOfLen(S, n) ==
  IF n <= 0 THEN {<< >>}
  ELSE {Append(q, e) : q \in SeqsOfLen(S, n - 1), e \in S}

\* ------------------------------------------------------- pure operations
\* Mutant of InCircle: the circle itself excluded.
InCircleStrict(p) == p.x * p.x + p.y * p.y < Denom * Denom

\* x**2 + y**2 <= 1 on statistics coordinates.
InCircle(p) == p.x * p.x + p.y * p.y <= Denom * Denom

\* Mutant of CountStep: the counter stepped once per coordinate.
CountStepTwice(count, p) == IF InCircle(p) THEN count + 2 ELSE count

\* if x**2 + y**2 <= 1: sim_inside += 1
CountStep(count, p) == IF InCircle(p) THEN count + 1 ELSE count

\* Mutant of Estimate: the factor 4 forgotten.
EstimateUnscaled(count, n) == Frac(count, n)

\* Mutant of Estimate: floor division, 4 * (sim_inside // total_points).
EstimateFloorDiv(count, n) == Frac(4 * (count \div n), 1)

\* my_pi = 4 * (sim_inside / total_points), for total_points # 0.
Estimate(count, n) == Frac(4 * count, n)

\* error = abs((my_pi - real_pi) / real_pi) * 100
RelError(est) ==
  Frac(100 * Abs(est.num * PiDen - PiNum * est.den), PiNum * est.den)

\* Mutant of LabelOf: elif error <= 5.
LabelOfInclusive(err) ==
  IF Lt(err, 1) THEN "success"
  ELSE IF err.num <= 5 * err.den THEN "warning" ELSE "error"

\* if error < 1: st.success  elif error < 5: st.warning  else: st.error
LabelOf(err) ==
  IF Lt(err, 1) THEN "success" ELSE IF Lt(err, 5) THEN "warning" ELSE "error"

\* is_inside = (x**2 + y**2) <= (radius**2)
is_inside(p) == p.x * p.x + p.y * p.y <= radius * radius

\* col = GREEN if is_inside else RED;  Dot(point=[x, y, 0], color=col)
Dot(p) == [x |-> p.x, y |-> p.y, col |-> IF is_inside(p) THEN "GREEN" ELSE "RED"]

\* The indices (from 1) of all_dots[:animation_limit] in a list of length len.
HeadSlice(len) == 1..Min(animation_limit, len)

\* The indices (from 1) of all_dots[animation_limit:] in a list of length len.
TailSlice(len) == (animation_limit + 1)..len

\* Mutant of FadeNeeded: if total_points >= animation_limit.
FadeNeededAtLimit(n) == n >= animation_limit

\* if total_points > animation_limit
FadeNeeded(n) == n > animation_limit

El(col, what) == [col |-> col, what |-> what]

\* What the script has put on the page when it reaches line 34.
PageHead ==
  <<El("main", "title"), El("main", "markdown"), El("main", "divider"),
    El("sidebar", "header"), El("sidebar", "slider"), El("sidebar", "info"),
    El("sidebar", "button")>>

\* The statistics panel of lines 146-165 for one result.
Panel(err) ==
  <<El("col2", "metric_n"), El("col2", "metric_inside"), El("col2", "divider"),
    El("col2", "markdown"), El("col2", "latex"), El("col2", "metric_estimate"),
    El("col2", "metric_pi"), El("col2", "error_rate"), El("col2", LabelOf(err))>>

ReplayStart ==
  [pc |-> "loop", trial |-> 0, sim_inside |-> 0, my_pi |-> Undef,
   error |-> Undef, exception |-> "none"]

\* ------------------------------------------------- one script execution
\* The state when the script reaches line 36 with the widgets' values.
ScriptStart(n, btn) ==
  /\ pc = "start"
  /\ total_points = n
  /\ run_btn = btn
  /\ ui = PageHead
  /\ progress = -1
  /\ plays = << >>
  /\ dot_i = 0
  /\ inside_count = 0
  /\ all_dots = EmptyBag
  /\ created = {}
  /\ faded = {}
  /\ caught = FALSE
  /\ trial = 0
  /\ sim_inside = 0
  /\ my_pi = Undef
  /\ error = Undef
  /\ exception = "none"
  /\ est_runs = 0
  /\ draws = << >>
  /\ replay = ReplayStart

Init == \E n \in SliderValues, btn \in BOOLEAN : ScriptStart(n, btn)

\* if run_btn: with col1: subheader, progress bar, temporary directory,
\* Manim configuration; the try block is entered.
RunBranch ==
  /\ pc = "start"
  /\ run_btn
  /\ ui' = ui \o <<El("col1", "subheader"), El("col1", "progress")>>
  /\ progress' = 0
  /\ pc' = "render"
  /\ UNCHANGED <<total_points, run_btn, caught, draws, replay>>
  /\ UNCHANGED sceneVars
  /\ UNCHANGED statVars

\* Mutant of Placeholder: the statistics panel dedented out of if run_btn.
PlaceholderThenStats ==
  /\ pc = "start"
  /\ ~run_btn
  /\ ui' = ui \o <<El("col1", "info"), El("col1", "placeholder")>>
  /\ pc' = "stats"
  /\ UNCHANGED <<total_points, run_btn, progress, caught, draws, replay>>
  /\ UNCHANGED sceneVars
  /\ UNCHANGED statVars

\* else: the placeholder.
Placeholder ==
  /\ pc = "start"
  /\ ~run_btn
  /\ ui' = ui \o <<El("col1", "info"), El("col1", "placeholder")>>
  /\ pc' = "footer"
  /\ UNCHANGED <<total_points, run_btn, progress, caught, draws, replay>>
  /\ UNCHANGED sceneVars
  /\ UNCHANGED statVars

\* scene.render() enters construct: shapes, the opening play, the empty list.
ConstructBegin ==
  /\ pc = "render"
  /\ plays' = <<"intro">>
  /\ inside_count' = 0
  /\ all_dots' = EmptyBag
  /\ dot_i' = 0
  /\ pc' = "dots"
  /\ UNCHANGED <<total_points, run_btn, ui, progress, created, faded, caught,
                 draws, replay>>
  /\ UNCHANGED statVars

\* One pass of for i in range(total_points): a draw, its colour, its dot.
DotStep ==
  /\ pc = "dots"
  /\ dot_i < total_points
  /\ \E p \in ScenePoints :
       /\ inside_count' = IF is_inside(p) THEN inside_count + 1 ELSE inside_count
       /\ all_dots' = all_dots (+) SetToBag({Dot(p)})
  /\ dot_i' = dot_i + 1
  /\ UNCHANGED <<pc, total_points, run_btn, ui, progress, plays, created, faded,
                 caught, draws, replay>>
  /\ UNCHANGED statVars

\* self.play(AnimationGroup(*[Create(d) for d in all_dots[:animation_limit]]))
PlayCreate ==
  /\ pc = "dots"
  /\ ~(dot_i < total_points)
  /\ created' = HeadSlice(BagCardinality(all_dots))
  /\ plays' = Append(plays, "create")
  /\ pc' = "fade"
  /\ UNCHANGED <<total_points, run_btn, ui, progress, dot_i, inside_count,
                 all_dots, faded, caught, draws, replay>>
  /\ UNCHANGED statVars

\* if total_points > animation_limit: self.play(FadeIn(...)); self.wait(1)
PlayFade ==
  /\ pc = "fade"
  /\ IF FadeNeeded(total_points)
       THEN /\ faded' = TailSlice(BagCardinality(all_dots))
            /\ plays' = plays \o <<"fadein", "wait">>
       ELSE /\ faded' = faded
            /\ plays' = Append(plays, "wait")
  /\ pc' = "rendered"
  /\ UNCHANGED <<total_points, run_btn, ui, progress, dot_i, inside_count,
                 all_dots, created, caught, draws, replay>>
  /\ UNCHANGED statVars

\* construct has returned and its locals are gone.
DropScene ==
  /\ plays' = << >>
  /\ dot_i' = 0
  /\ inside_count' = 0
  /\ all_dots' = EmptyBag
  /\ created' = {}
  /\ faded' = {}

\* render returned: progress_bar.progress(100), st.video(video_path).
RenderOk ==
  /\ pc = "rendered"
  /\ progress' = 100
  /\ ui' = Append(ui, El("col1", "video"))
  /\ DropScene
  /\ pc' = "stats"
  /\ UNCHANGED <<total_points, run_btn, caught, draws, replay>>
  /\ UNCHANGED statVars

\* Mutant of RenderRaise: no try/except, the exception ends the script.
RenderRaiseUncaught ==
  /\ pc \in {"render", "dots", "fade", "rendered"}
  /\ exception' = "RenderError"
  /\ DropScene
  /\ pc' = "aborted"
  /\ UNCHANGED <<total_points, run_btn, ui, progress, caught, draws, replay,
                 trial, sim_inside, my_pi, error, est_runs>>

\* MonteCarloScene() or scene.render() raised, before, during or after
\* construct: except Exception: st.error, st.warning.
RenderRaise ==
  /\ pc \in {"render", "dots", "fade", "rendered"}
  /\ caught' = TRUE
  /\ ui' = ui \o <<El("col1", "error"), El("col1", "warning")>>
  /\ DropScene
  /\ pc' = "stats"
  /\ UNCHANGED <<total_points, run_btn, progress, draws, replay>>
  /\ UNCHANGED statVars

\* with col2: subheader, sim_inside = 0, sim_points = [].
StatsBegin ==
  /\ pc = "stats"
  /\ ui' = Append(ui, El("col2", "subheader"))
  /\ sim_inside' = 0
  /\ trial' = 0
  /\ est_runs' = est_runs + 1
  /\ pc' = "loop"
  /\ UNCHANGED <<total_points, run_btn, progress, caught, my_pi, error,
                 exception, draws, replay>>
  /\ UNCHANGED sceneVars

\* One pass of for _ in range(total_points) with the draw p.
TrialWith(p) ==
  /\ pc = "loop"
  /\ trial < total_points
  /\ sim_inside' = CountStep(sim_inside, p)
  /\ trial' = trial + 1
  /\ UNCHANGED <<pc, total_points, run_btn, ui, progress, caught, my_pi, error,
                 exception, est_runs, draws, replay>>
  /\ UNCHANGED sceneVars

\* A trial of the script: the draw is whatever the generator gives.
Trial == \E p \in StatPoints : TrialWith(p)

\* The loop is over: my_pi, error, the metrics and the label.  A zero
\* total_points makes sim_inside / total_points raise ZeroDivisionError, which
\* nothing catches: the script stops there.
Report ==
  /\ pc = "loop"
  /\ ~(trial < total_points)
  /\ IF total_points = 0
       THEN /\ exception' = "ZeroDivisionError"
            /\ pc' = "aborted"
            /\ UNCHANGED <<my_pi, error, ui>>
       ELSE /\ my_pi' = Estimate(sim_inside, total_points)
            /\ error' = RelError(my_pi')
            /\ ui' = ui \o Panel(error')
            /\ pc' = "footer"
            /\ UNCHANGED exception
  /\ UNCHANGED <<total_points, run_btn, progress, caught, trial, sim_inside,
                 est_runs, draws, replay>>
  /\ UNCHANGED sceneVars

\* st.divider(), the expander.
Footer ==
  /\ pc = "footer"
  /\ ui' = ui \o <<El("main", "divider"), El("main", "expander")>>
  /\ pc' = "done"
  /\ UNCHANGED <<total_points, run_btn, progress, caught, draws, replay>>
  /\ UNCHANGED sceneVars
  /\ UNCHANGED statVars

\* The user moves the slider or presses the button: the script runs again
\* from the top with the widgets' new values.
Rerun ==
  /\ pc \in {"done", "aborted"}
  /\ \E n \in SliderValues, btn \in BOOLEAN :
       /\ pc' = "start"
       /\ total_points' = n
       /\ run_btn' = btn
  /\ ui' = PageHead
  /\ progress' = -1
  /\ caught' = FALSE
  /\ DropScene
  /\ trial' = 0
  /\ sim_inside' = 0
  /\ my_pi' = Undef
  /\ error' = Undef
  /\ exception' = "none"
  /\ est_runs' = 0
  /\ UNCHANGED <<draws, replay>>

Next ==
  \/ RunBranch
  \/ Placeholder
  \/ ConstructBegin
  \/ DotStep
  \/ PlayCreate
  \/ PlayFade
  \/ RenderOk
  \/ RenderRaise
  \/ StatsBegin
  \/ Trial
  \/ Report
  \/ Footer
  \/ Rerun

Spec == Init /\ [][Next]_vars

\* ------------------------------------------- the estimator block alone
\* Lines 133-165 on any sample count from -1 to MaxN and a fixed sequence of
\* draws, one per trial.  A second run of the same block on the same draws
\* (replay) proceeds beside the first.
EstInit ==
  /\ pc = "stats"
  /\ total_points \in (-1)..MaxN
  /\ draws \in SeqsOfLen(EstPoints, total_points)
  /\ run_btn = TRUE
  /\ ui = << >>
  /\ progress = -1
  /\ plays = << >>
  /\ dot_i = 0
  /\ inside_count = 0
  /\ all_dots = EmptyBag
  /\ created = {}
  /\ faded = {}
  /\ caught = FALSE
  /\ trial = 0
  /\ sim_inside = 0
  /\ my_pi = Undef
  /\ error = Undef
  /\ exception = "none"
  /\ est_runs = 0
  /\ replay = ReplayStart

\* A trial whose draw is the next one of the fixed sequence.
EstTrial == trial < Len(draws) /\ TrialWith(draws[trial + 1])

\* A trial of the second run.
ReplayTrial ==
  /\ replay.pc = "loop"
  /\ replay.trial < total_points
  /\ replay.trial < Len(draws)
  /\ replay' = [replay EXCEPT
                  !.sim_inside = CountStep(@, draws[replay.trial + 1]),
                  !.trial = @ + 1]
  /\ UNCHANGED <<pc, total_points, run_btn, ui, progress, caught, draws>>
  /\ UNCHANGED sceneVars
  /\ UNCHANGED statVars

\* The end of the second run.
ReplayReport ==
  /\ replay.pc = "loop"
  /\ ~(replay.trial < total_points)
  /\ replay' =
       IF total_points = 0
         THEN [replay EXCEPT !.exception = "ZeroDivisionError", !.pc = "aborted"]
         ELSE [replay EXCEPT
                 !.my_pi = Estimate(replay.sim_inside, total_points),
                 !.error = RelError(Estimate(replay.sim_inside, total_points)),
                 !.pc = "footer"]
  /\ UNCHANGED <<pc, total_points, run_btn, ui, progress, caught, draws>>
  /\ UNCHANGED sceneVars
  /\ UNCHANGED statVars

EstNext ==
  \/ StatsBegin
  \/ EstTrial
  \/ Report
  \/ ReplayTrial
  \/ ReplayReport

EstSpec == EstInit /\ [][EstNext]_vars

\* ---------------------------------------------------- the classifier alone
\* Lines 160-165 on any error value num / den percent.
ClassInit ==
  /\ pc = "classify"
  /\ error \in {Frac(a, b) : a \in 0..MaxErrNum, b \in 1..MaxErrDen}
  /\ total_points = min_value
  /\ draws = << >>
  /\ run_btn = TRUE
  /\ ui = << >>
  /\ progress = -1
  /\ plays = << >>
  /\ dot_i = 0
  /\ inside_count = 0
  /\ all_dots = EmptyBag
  /\ created = {}
  /\ faded = {}
  /\ caught = FALSE
  /\ trial = 0
  /\ sim_inside = 0
  /\ my_pi = Undef
  /\ exception = "none"
  /\ est_runs = 0
  /\ replay = ReplayStart

\* if error < 1: ... elif error < 5: ... else: ...
Classify ==
  /\ pc = "classify"
  /\ ui' = Append(ui, El("col2", LabelOf(error)))
  /\ pc' = "classified"
  /\ UNCHANGED <<total_points, run_btn, progress, caught, draws, replay>>
  /\ UNCHANGED sceneVars
  /\ UNCHANGED statVars

ClassNext == Classify

ClassSpec == ClassInit /\ [][ClassNext]_vars

\* ------------------------------------------------------------ the claims
\* The positions of element (col, what) on the page.
Places(col, what) == {k \in 1..Len(ui) : ui[k] = El(col, what)}

Has(col, what) == Places(col, what) # {}

\* The elements put into one column, in order.
Column(col) == SelectSeq(ui, LAMBDA e : e.col = col)

\* The quality messages of the statistics panel, in order.
ShownLabels ==
  SelectSeq(ui, LAMBDA e : e.col = "col2" /\ e.what \in {"success", "warning", "error"})

Count(seq, v) == Cardinality({k \in 1..Len(seq) : seq[k] = v})

\* C1: in the statistics loop, for every sample count n > 0 and every
\* sequence of draws, 0 <= sim_inside <= trials done <= n after every trial,
\* and 0 <= sim_inside <= n with all n trials done once the estimate exists.
C1_CountWithinTrials ==
  /\ (pc = "loop" /\ total_points > 0) =>
       /\ 0 <= sim_inside
       /\ sim_inside <= trial
       /\ trial <= total_points
  /\ (my_pi # Undef /\ total_points > 0) =>
       /\ trial = total_points
       /\ 0 <= sim_inside
       /\ sim_inside <= total_points

\* C1 witness: a finished loop in which some draws fell inside and some not.
C1_Witness ==
  /\ my_pi # Undef
  /\ total_points > 0
  /\ 0 < sim_inside
  /\ sim_inside < total_points

\* C2: for every n > 0 the estimate equals 4 * sim_inside / n and lies in
\* [0, 4]: 0 when no point is inside, 4 when all n are.
C2_EstimateInRange ==
  (my_pi # Undef /\ total_points > 0) =>
    /\ my_pi.den > 0
    /\ my_pi.num * total_points = 4 * sim_inside * my_pi.den
    /\ 0 <= my_pi.num
    /\ my_pi.num <= 4 * my_pi.den
    /\ (sim_inside = 0 => my_pi.num = 0)
    /\ (sim_inside = total_points => my_pi.num = 4 * my_pi.den)

\* C2 witness: a run of the script in which every draw fell inside, the
\* estimate being 4.
C2_Witness ==
  /\ pc = "footer"
  /\ total_points > 0
  /\ sim_inside = total_points
  /\ my_pi = [num |-> 4, den |-> 1]

\* C3: the counter equals the number of draws so far with x^2 + y^2 <= 1,
\* the circle itself included: (1,0) counts, (1,1) does not.
C3_CountsExactlyInside ==
  pc \in {"loop", "footer"} =>
    sim_inside =
      Cardinality({k \in 1..trial :
        draws[k].x * draws[k].x + draws[k].y * draws[k].y <= Denom * Denom})

\* C3 witness: the draws (1,0), (1,1) counted as one inside.
C3_Witness ==
  /\ pc = "footer"
  /\ draws = <<[x |-> Denom, y |-> 0], [x |-> Denom, y |-> Denom]>>
  /\ sim_inside = 1

\* The draws (0,0), (1,1), (0.5,0.5), (1,0).
Scenario ==
  <<[x |-> 0, y |-> 0], [x |-> Denom, y |-> Denom], [x |-> 1, y |-> 1],
    [x |-> Denom, y |-> 0]>>

C5_NonPositiveRejected ==
  total_points <= 0 =>
    /\ exception = "none"
    /\ pc # "aborted"
    /\ my_pi = Undef

\* C6 as claimed: one label per run; success when the error is < 1, warning
\* when it is in [1, 5] with both ends, error when it is > 5.
C6_LabelClosedRange ==
  pc = "classified" =>
    /\ Len(ShownLabels) = 1
    /\ (ShownLabels[1].what = "success") <=> (error.num < error.den)
    /\ (ShownLabels[1].what = "warning") <=>
         (error.den <= error.num /\ error.num <= 5 * error.den)
    /\ (ShownLabels[1].what = "error") <=> (error.num > 5 * error.den)

\* C6 as amended: one label per run; success when the error is < 1, warning
\* when 1 <= error < 5, error when error >= 5.
C6_LabelHalfOpenRange ==
  pc = "classified" =>
    /\ Len(ShownLabels) = 1
    /\ (ShownLabels[1].what = "success") <=> (error.num < error.den)
    /\ (ShownLabels[1].what = "warning") <=>
         (error.den <= error.num /\ error.num < 5 * error.den)
    /\ (ShownLabels[1].what = "error") <=> (error.num >= 5 * error.den)

\* C6 witness: an error of exactly 5 percent, labelled with the error message.
C6_Witness ==
  /\ pc = "classified"
  /\ error = [num |-> 5, den |-> 1]
  /\ ShownLabels = <<El("col2", "error")>>

\* C7: an exception of the rendering is caught and shown as an error message,
\* with no video and the progress bar not complete; the script does not abort
\* and the statistics panel follows; after a successful rendering the video is
\* shown and then the same panel.
C7_RenderFailureCaught ==
  /\ pc # "aborted"
  /\ exception = "none"
  /\ caught =>
       /\ Has("col1", "error")
       /\ ~Has("col1", "video")
       /\ progress # 100
  /\ (pc = "done" /\ run_btn) =>
       /\ my_pi # Undef
       /\ error # Undef
       /\ Len(Column("col2")) = 1 + Len(Panel(error))
       /\ \A k \in 1..Len(Panel(error)) : Column("col2")[k + 1] = Panel(error)[k]
       /\ IF caught
            THEN \A a \in Places("col1", "error"), b \in Places("col2", "metric_n") :
                   a < b
            ELSE /\ progress = 100
                 /\ Has("col1", "video")
                 /\ ~Has("col1", "error")
                 /\ \A a \in Places("col1", "video"), b \in Places("col2", "metric_n") :
                      a < b

\* C7 witness: a finished run whose rendering raised, with the panel shown.
C7_Witness ==
  /\ pc = "done"
  /\ caught
  /\ Has("col1", "error")
  /\ Has("col2", "metric_estimate")

\* C8: the estimator runs once per triggered run and does all n trials before
\* anything of the result is shown; with the button not pressed no sample is
\* drawn, no result is shown and the columns hold only the placeholder.
C8_OncePerRunToCompletion ==
  /\ est_runs <= 1
  /\ Len(Column("col2")) > 1 =>
       /\ run_btn
       /\ est_runs = 1
       /\ trial = total_points
  /\ (pc = "done" /\ run_btn) =>
       /\ est_runs = 1
       /\ trial = total_points
       /\ Has("col2", "metric_estimate")
  /\ ~run_btn =>
       /\ est_runs = 0
       /\ trial = 0
       /\ dot_i = 0
       /\ all_dots = EmptyBag
       /\ my_pi = Undef
       /\ Column("col2") = << >>
       /\ pc \in {"footer", "done"} =>
            Column("col1") = <<El("col1", "info"), El("col1", "placeholder")>>

\* C8 witness: a finished triggered run, its single estimation complete.
C8_Witness ==
  /\ pc = "done"
  /\ run_btn
  /\ est_runs = 1
  /\ trial = total_points
  /\ ~caught

\* C9: the sample count is always a slider value, a multiple of 10 from 10 to
\* 2000, and the division by it never raises ZeroDivisionError.
C9_SampleCountFromSlider ==
  /\ 10 <= total_points
  /\ total_points <= 2000
  /\ total_points % 10 = 0
  /\ exception # "ZeroDivisionError"
  /\ pc # "aborted"

\* C9 witness: the division done for the smallest slider value.
C9_Witness ==
  /\ pc = "footer"
  /\ total_points = 10
  /\ my_pi # Undef

====
